---- MODULE Spec2Model ----
(***************************************************************************)
(* A model of split.py: the chapter-metadata parser (get_chapters), the    *)
(* title normalizer, the output naming, the split plan writer and the      *)
(* orchestration of one run of main.                                       *)
(*                                                                         *)
(* Text is a sequence of characters; a character is a one-character        *)
(* string ("U+2019" and "U+FB01" name the two non-ASCII code points the    *)
(* inputs use).  Python positions are 0-based and are kept 0-based in the  *)
(* keys of titles and markers; TLA+ sequences are 1-based.                 *)
(***************************************************************************)
EXTENDS Integers, Sequences, FiniteSets, TLC

VARIABLES
    pc,            \* position of the run in main
    blocks,        \* the items the probe output was rendered from (input)
    data,          \* the text ffprobe printed (stdout and stderr combined)
    chapters,      \* main's local "chapters": a sequence of <<title, start, end>>
    error,         \* the exception that ended the run, or NoError
    mp3,           \* the file at the cache path: "absent", "partial", "complete"
    plan_created,  \* NamedTemporaryFile has been created in this run
    plan_exists,   \* the temporary plan file is on disk
    plan_buf,      \* text written to fp and not yet flushed
    plan_file,     \* text of the plan file visible to other processes
    stdout,        \* what the run printed, a sequence of messages
    events,        \* the calls made so far, in order: external processes and
                   \* the returns of get_mp3 and write_chapters
    tagged,        \* the loop index i of the tagging loop
    nm_i,          \* get_output_name's argument i
    nm_title,      \* get_output_name's argument title
    nm_name        \* get_output_name's result

vars == <<pc, blocks, data, chapters, error, mp3, plan_created, plan_exists,
          plan_buf, plan_file, stdout, events, tagged, nm_i, nm_title, nm_name>>

(***************************************************************************)
(* Bounds of the model.                                                    *)
(***************************************************************************)
\* the number of items (blocks or single lines) of a probe text given to
\* get_chapters alone
MaxBlocks == 3
\* the number of items of a probe text in a run of main
MaxRunBlocks == 2
\* the largest index get_output_name is applied to
MaxIndex == 100

(***************************************************************************)
(* Text primitives.                                                        *)
(***************************************************************************)
Digits == {"0", "1", "2", "3", "4", "5", "6", "7", "8", "9"}

DigitOf(n) ==
    CASE n = 0 -> "0" [] n = 1 -> "1" [] n = 2 -> "2" [] n = 3 -> "3"
      [] n = 4 -> "4" [] n = 5 -> "5" [] n = 6 -> "6" [] n = 7 -> "7"
      [] n = 8 -> "8" [] n = 9 -> "9"

RECURSIVE Concat(_)
Concat(ss) == IF ss = <<>> THEN <<>> ELSE Head(ss) \o Concat(Tail(ss))

\* whether the literal lit stands in s at position pos
HasAt(s, pos, lit) ==
    /\ pos + Len(lit) - 1 <= Len(s)
    /\ SubSeq(s, pos, pos + Len(lit) - 1) = lit

\* the length of the longest run of characters of cs in s from position pos:
\* what a greedy character class with + or * consumes
RECURSIVE RunLen(_, _, _)
RunLen(s, pos, cs) ==
    IF pos <= Len(s) /\ s[pos] \in cs THEN 1 + RunLen(s, pos + 1, cs) ELSE 0

\* sorted(S) for a finite set of integers
RECURSIVE sorted(_)
sorted(S) ==
    IF S = {} THEN <<>>
    ELSE LET m == CHOOSE x \in S : \A y \in S : x <= y
         IN  <<m>> \o sorted(S \ {m})

\* str.replace(old, new) for one-character old and new
replace(s, old, new) == [k \in 1..Len(s) |-> IF s[k] = old THEN new ELSE s[k]]

\* str(n) for n >= 0
RECURSIVE str(_)
str(n) == IF n < 10 THEN <<DigitOf(n)>> ELSE str(n \div 10) \o <<DigitOf(n % 10)>>

\* '%02d' % n for n >= 0
Format02d(n) == IF n < 10 THEN <<"0">> \o str(n) ELSE str(n)

\* the characters str.splitlines breaks lines at (those the inputs can hold)
LineBreaks == {"\n", "\f"}

\* data.splitlines(): the text between line breaks, without the breaks; a
\* text that ends with a break has no empty last line
splitlines(text) ==
    LET brk == sorted({p \in 1..Len(text) : text[p] \in LineBreaks})
        n == Len(brk)
        from(k) == IF k = 1 THEN 1 ELSE brk[k - 1] + 1
        last == IF n = 0 THEN 1 ELSE brk[n] + 1
    IN  [k \in 1..n |-> SubSeq(text, from(k), brk[k] - 1)]
        \o (IF last <= Len(text) THEN <<SubSeq(text, last, Len(text))>> ELSE <<>>)

(***************************************************************************)
(* normalize                                                               *)
(***************************************************************************)
\* unicodedata.normalize('NFKC', .) on one character: the ligature U+FB01
\* decomposes to "fi"; the other characters of the inputs are in NFKC form
NFKC(ch) == IF ch = "U+FB01" THEN <<"f", "i">> ELSE <<ch>>

\* str.translate({8217: "'"}) on one character
translate(ch) == IF ch = "U+2019" THEN "'" ELSE ch

normalize(title) ==
    LET unicode_normalized == Concat([k \in 1..Len(title) |-> NFKC(title[k])])
    IN  [k \in 1..Len(unicode_normalized) |-> translate(unicode_normalized[k])]

(***************************************************************************)
(* The two patterns of get_chapters.  re.match anchors at the start of the *)
(* line only; "." matches every character of a line.                       *)
(***************************************************************************)
TitlePrefix ==
    <<" "," "," "," "," "," ","t","i","t","l","e",
      " "," "," "," "," "," "," "," "," "," "," ",":"," ">>
ChapterPrefix == <<" "," "," "," ","C","h","a","p","t","e","r"," ","#">>
StartLit == <<":"," ","s","t","a","r","t"," ">>
EndLit == <<","," ","e","n","d"," ">>
FloatChars == Digits \cup {"."}

NoMatch == [matched |-> FALSE, groups |-> <<>>]

\* re.match(r'      title           : (.*)', line)
match_title(line) ==
    IF HasAt(line, 1, TitlePrefix)
    THEN [matched |-> TRUE,
          groups |-> <<SubSeq(line, Len(TitlePrefix) + 1, Len(line))>>]
    ELSE NoMatch

\* re.match(r'    Chapter #\d+[.:]\d+: start ([\d.]+), end ([\d.]+)', line)
match_chapter(line) ==
    LET p0 == Len(ChapterPrefix) + 1
        d1 == RunLen(line, p0, Digits)
        p1 == p0 + d1
        p2 == p1 + 1
        d2 == RunLen(line, p2, Digits)
        p3 == p2 + d2
        p4 == p3 + Len(StartLit)
        f1 == RunLen(line, p4, FloatChars)
        p5 == p4 + f1
        p6 == p5 + Len(EndLit)
        f2 == RunLen(line, p6, FloatChars)
    IN  IF /\ HasAt(line, 1, ChapterPrefix)
           /\ d1 >= 1
           /\ p1 <= Len(line) /\ line[p1] \in {".", ":"}
           /\ d2 >= 1
           /\ HasAt(line, p3, StartLit)
           /\ f1 >= 1
           /\ HasAt(line, p5, EndLit)
           /\ f2 >= 1
        THEN [matched |-> TRUE,
              groups |-> <<SubSeq(line, p4, p5 - 1), SubSeq(line, p6, p6 + f2 - 1)>>]
        ELSE NoMatch

(***************************************************************************)
(* get_chapters, after ffprobe returned its text.                          *)
(***************************************************************************)
\* the offset between a title line and the chapter line it belongs to
TitleOffset == 2

\* titles = {i-2: normalize(o.group(1)) ...}; i is 0-based
titles(lines) ==
    LET keys == {i - TitleOffset : i \in {j \in 0..(Len(lines) - 1) :
                                          match_title(lines[j + 1]).matched}}
    IN  [k \in keys |-> normalize(match_title(lines[k + TitleOffset + 1]).groups[1])]

\* markers = {i: (o.group(1), o.group(2)) ...}
markers(lines) ==
    LET keys == {i \in 0..(Len(lines) - 1) : match_chapter(lines[i + 1]).matched}
    IN  [i \in keys |-> match_chapter(lines[i + 1]).groups]

\* indices sorted in descending order
indices_descending(t, m) ==
    LET up == sorted((DOMAIN t) \cap (DOMAIN m))
    IN  [k \in 1..Len(up) |-> up[Len(up) + 1 - k]]

\* indices = sorted(set(titles.keys()) & set(markers.keys()))
indices(t, m) == sorted((DOMAIN t) \cap (DOMAIN m))

\* chapters = [(titles[i], markers[i][0], markers[i][1]) for i in indices]
build_chapters(t, m, idx) ==
    [n \in 1..Len(idx) |-> <<t[idx[n]], m[idx[n]][1], m[idx[n]][2]>>]

ContiguousLit ==
    <<"C","h","a","p","t","e","r","s"," ","a","r","e"," ","n","o","t"," ",
      "c","o","n","t","i","g","u","o","u","s",":"," ">>
NeLit == <<" ","!","="," ">>

\* "Chapters are not contiguous: %s != %s" % (ch_i[2], ch_j[1])
ContiguityMessage(ch_i, ch_j) == ContiguousLit \o ch_i[3] \o NeLit \o ch_j[2]

\* the pairs of zip(chapters[:-1], chapters[1:]) whose test ch_i[2] != ch_j[1]
\* is true
Offending(chs) == {n \in 1..(Len(chs) - 1) : chs[n][3] # chs[n + 1][2]}

\* first_offending reporting the last mismatched pair instead of the first
last_offending(chs) ==
    IF Offending(chs) = {} THEN 0
    ELSE CHOOSE x \in Offending(chs) : \A y \in Offending(chs) : x >= y

\* the pair at which the loop raises: the first one in order; 0 when the loop
\* ends without raising
first_offending(chs) ==
    IF Offending(chs) = {} THEN 0
    ELSE CHOOSE x \in Offending(chs) : \A y \in Offending(chs) : x <= y

NoError == [type |-> "none", msg |-> <<>>]

\* print("No indices"); print(repr(titles)); print(repr(markers))
no_indices_prints(t, m) ==
    <<[text |-> "No indices", arg |-> <<>>],
      [text |-> "repr(titles)", arg |-> t],
      [text |-> "repr(markers)", arg |-> m]>>

\* get_chapters raising when a title line or a chapter line has no partner
get_chapters_strict(text) ==
    LET lines == splitlines(text)
        t == titles(lines)
        m == markers(lines)
        idx == indices(t, m)
        chs == build_chapters(t, m, idx)
        n == first_offending(chs)
        printed == IF idx = <<>> THEN no_indices_prints(t, m) ELSE <<>>
    IN  IF (DOMAIN t) # (DOMAIN m)
        THEN [raised |-> TRUE,
              exc |-> [type |-> "Exception", msg |-> <<"unmatched">>],
              value |-> <<>>, printed |-> printed]
        ELSE IF n # 0
        THEN [raised |-> TRUE,
              exc |-> [type |-> "Exception",
                       msg |-> ContiguityMessage(chs[n], chs[n + 1])],
              value |-> <<>>, printed |-> printed]
        ELSE [raised |-> FALSE, exc |-> NoError, value |-> chs, printed |-> printed]

\* the outcome of get_chapters on the text ffprobe printed
get_chapters(text) ==
    LET lines == splitlines(text)
        t == titles(lines)
        m == markers(lines)
        idx == indices(t, m)
        chs == build_chapters(t, m, idx)
        n == first_offending(chs)
        printed == IF idx = <<>> THEN no_indices_prints(t, m) ELSE <<>>
    IN  IF n # 0
        THEN [raised |-> TRUE,
              exc |-> [type |-> "Exception",
                       msg |-> ContiguityMessage(chs[n], chs[n + 1])],
              value |-> <<>>, printed |-> printed]
        ELSE [raised |-> FALSE, exc |-> NoError, value |-> chs, printed |-> printed]

(***************************************************************************)
(* get_output_name and write_chapters                                      *)
(***************************************************************************)
NameSeparator == <<".", " ">>

\* get_output_name without the separator between index and title
get_output_name_nosep(i, title) == Format02d(i + 1) \o replace(title, "/", "_")

\* '%02d. %s' % (i+1, title.replace('/', '_'))
get_output_name(i, title) ==
    LET title_escaped == replace(title, "/", "_")
    IN  Format02d(i + 1) \o NameSeparator \o title_escaped

\* '%s\t%s\t%s\n' % (start, end, filename)
plan_line(i, ch) ==
    ch[2] \o <<"\t">> \o ch[3] \o <<"\t">> \o get_output_name(i, ch[1]) \o <<"\n">>

\* the text the loop of write_chapters writes to fp
plan_text(chs) == Concat([n \in 1..Len(chs) |-> plan_line(n - 1, chs[n])])

\* write_chapters without its fp.flush(): the text stays in the buffer
write_chapters_noflush(chs) == [buf |-> plan_text(chs), file |-> <<>>]

\* write_chapters(fp, chapters) on an empty fp: the writes go to the buffer
\* and fp.flush() moves them to the file
write_chapters(chs) == [buf |-> <<>>, file |-> plan_text(chs)]

(***************************************************************************)
(* The probe texts: what ffprobe may print.                                *)
(***************************************************************************)
T_0_0 == <<"0",".","0">>
T_10_0 == <<"1","0",".","0">>
T_10_00 == <<"1","0",".","0","0">>
T_25_5 == <<"2","5",".","5">>

\* the chapter spans: number, separator, start, end as ffprobe would print
\* them; the numbers do not follow the order of the spans
SpanSet ==
    { [num |-> <<"2">>, sep |-> ":", start |-> T_0_0, end |-> T_10_0],
      [num |-> <<"1">>, sep |-> ".", start |-> T_10_0, end |-> T_25_5],
      [num |-> <<"1","0">>, sep |-> ":", start |-> T_10_00, end |-> T_25_5],
      [num |-> <<"0">>, sep |-> ":", start |-> T_25_5, end |-> T_10_0] }

TitleSet ==
    { <<"I","n","t","r","o">>,
      <<"A","/","B","U+2019","U+FB01">>,
      <<"a","\t","b">> }

NoSpan == [num |-> <<>>, sep |-> "", start |-> <<>>, end |-> <<>>]

\* the items of a probe text: a whole chapter block (chapter line, Metadata:
\* line, title line), a chapter line alone, a title line alone, another line
BlockSet ==
    [kind : {"block"}, span : SpanSet, title : TitleSet]
    \cup [kind : {"chapter"}, span : {s \in SpanSet : s.start \in {T_0_0, T_10_0}},
          title : {<<>>}]
    \cup [kind : {"title"}, span : {NoSpan}, title : {<<"I","n","t","r","o">>}]
    \cup [kind : {"other"}, span : {NoSpan}, title : {<<>>}]

MetadataLine == <<" "," "," "," ","M","e","t","a","d","a","t","a",":">>

ChapterLine(s) ==
    ChapterPrefix \o <<"0">> \o <<s.sep>> \o s.num \o StartLit \o s.start
        \o EndLit \o s.end

TitleLine(t) == TitlePrefix \o t

LinesOf(b) ==
    CASE b.kind = "block" -> <<ChapterLine(b.span), MetadataLine, TitleLine(b.title)>>
      [] b.kind = "chapter" -> <<ChapterLine(b.span)>>
      [] b.kind = "title" -> <<TitleLine(b.title)>>
      [] b.kind = "other" -> <<MetadataLine>>

\* the text ffprobe prints: every line ends with a newline
Render(bs) ==
    LET ls == Concat([k \in 1..Len(bs) |-> LinesOf(bs[k])])
    IN  Concat([k \in 1..Len(ls) |-> ls[k] \o <<"\n">>])

Inputs(n) == UNION {[1..k -> BlockSet] : k \in 0..n}

(***************************************************************************)
(* The parser alone: get_chapters applied to a probe text, then            *)
(* write_chapters applied to what it returned.                             *)
(***************************************************************************)
InitCommon ==
    /\ chapters = <<>>
    /\ error = NoError
    /\ plan_created = FALSE
    /\ plan_exists = FALSE
    /\ plan_buf = <<>>
    /\ plan_file = <<>>
    /\ stdout = <<>>
    /\ events = <<>>
    /\ tagged = 0
    /\ nm_i = 0
    /\ nm_title = <<>>
    /\ nm_name = <<>>

InitExtract ==
    /\ pc = "get_chapters"
    /\ blocks \in Inputs(MaxBlocks)
    /\ data = Render(blocks)
    /\ mp3 = "absent"
    /\ InitCommon

Extract ==
    /\ pc = "get_chapters"
    /\ LET r == get_chapters(data)
       IN  /\ chapters' = r.value
           /\ error' = r.exc
           /\ stdout' = stdout \o r.printed
           /\ pc' = IF r.raised THEN "done" ELSE "write_chapters"
    /\ UNCHANGED <<blocks, data, mp3, plan_created, plan_exists, plan_buf,
                   plan_file, events, tagged, nm_i, nm_title, nm_name>>

EmitPlan ==
    /\ pc = "write_chapters"
    /\ LET w == write_chapters(chapters)
       IN  /\ plan_buf' = w.buf
           /\ plan_file' = w.file
    /\ pc' = "done"
    /\ UNCHANGED <<blocks, data, chapters, error, mp3, plan_created, plan_exists,
                   stdout, events, tagged, nm_i, nm_title, nm_name>>

NextExtract == Extract \/ EmitPlan

SpecExtract == InitExtract /\ [][NextExtract]_vars

(***************************************************************************)
(* get_output_name alone.                                                  *)
(***************************************************************************)
\* titles that begin like an index prefix, are empty, or hold a separator
NameTitleSet ==
    { <<>>, <<"0">>, <<"1",".", " ">>, <<".", " ", "0">>, <<"A","/","B">>,
      <<"A","_","B">> }

InitName ==
    /\ pc = "get_output_name"
    /\ blocks = <<>>
    /\ data = <<>>
    /\ mp3 = "absent"
    /\ chapters = <<>>
    /\ error = NoError
    /\ plan_created = FALSE
    /\ plan_exists = FALSE
    /\ plan_buf = <<>>
    /\ plan_file = <<>>
    /\ stdout = <<>>
    /\ events = <<>>
    /\ tagged = 0
    /\ nm_i \in 0..MaxIndex
    /\ nm_title \in NameTitleSet
    /\ nm_name = <<>>

Name ==
    /\ pc = "get_output_name"
    /\ nm_name' = get_output_name(nm_i, nm_title)
    /\ pc' = "done"
    /\ UNCHANGED <<blocks, data, chapters, error, mp3, plan_created, plan_exists,
                   plan_buf, plan_file, stdout, events, tagged, nm_i, nm_title>>

NextName == Name

SpecName == InitName /\ [][NextName]_vars

(***************************************************************************)
(* One run of main, from the call of get_chapters on.                      *)
(***************************************************************************)
Event(what, ok, arg) == [what |-> what, ok |-> ok, arg |-> arg]

NothingLit ==
    <<"g","e","t","_","c","h","a","p","t","e","r","s"," ","r","e","t","u","r","n",
      "e","d"," ","n","o","t","h","i","n","g">>

\* subprocess.CalledProcessError of check_output and check_call
CalledProcessError(prog) == [type |-> "CalledProcessError", msg |-> <<prog>>]

\* main without the test of an empty chapter list
chapters_missing_never(chs) == FALSE

\* "if not chapters: raise Exception(...)"
chapters_missing(chs) == chs = <<>>

\* the name NamedTemporaryFile gave the plan file
PlanPath == "fp.name"

\* the file at the cache path may be left by an earlier run: a whole one, or
\* the part an earlier derivation wrote before it failed
Init ==
    /\ pc = "get_chapters"
    /\ blocks \in Inputs(MaxRunBlocks)
    /\ data = Render(blocks)
    /\ mp3 \in {"absent", "partial", "complete"}
    /\ InitCommon

\* chapters = get_chapters(args.input_file), and the test that follows it
GetChapters ==
    /\ pc = "get_chapters"
    /\ \E ok \in BOOLEAN :
        /\ events' = Append(events, Event("ffprobe", ok, <<>>))
        /\ IF ~ok
           THEN /\ error' = CalledProcessError("ffprobe")
                /\ pc' = "done"
                /\ UNCHANGED <<chapters, stdout>>
           ELSE LET r == get_chapters(data)
                IN  /\ stdout' = stdout \o r.printed
                    /\ chapters' = r.value
                    /\ IF r.raised
                       THEN error' = r.exc /\ pc' = "done"
                       ELSE IF chapters_missing(r.value)
                            THEN /\ error' = [type |-> "Exception", msg |-> NothingLit]
                                 /\ pc' = "done"
                            ELSE error' = error /\ pc' = "get_mp3"
    /\ UNCHANGED <<blocks, data, mp3, plan_created, plan_exists, plan_buf,
                   plan_file, tagged, nm_i, nm_title, nm_name>>

\* the except clause of get_mp3, entered with the derivation's error orig
\* while the file at mp3_name is in state file: os.path has no attribute
\* "remove", so the removal raises AttributeError and removes nothing
get_mp3_except(file, orig) ==
    IF file # "absent"
    THEN [mp3 |-> file, exc |-> [type |-> "AttributeError", msg |-> <<"os.path.remove">>]]
    ELSE [mp3 |-> file, exc |-> orig]

\* full_mp3 = get_mp3(args.input_file, args.output_dir)
GetMp3 ==
    /\ pc = "get_mp3"
    /\ \/ /\ mp3 # "absent"
          /\ events' = Append(events, Event("get_mp3", TRUE, "cached"))
          /\ pc' = "mktemp"
          /\ UNCHANGED <<mp3, error>>
       \/ /\ mp3 = "absent"
          /\ events' = events \o <<Event("ffmpeg", TRUE, <<>>), Event("lame", TRUE, <<>>),
                                   Event("get_mp3", TRUE, "derived")>>
          /\ mp3' = "complete"
          /\ pc' = "mktemp"
          /\ UNCHANGED error
       \/ /\ mp3 = "absent"
          /\ \E written \in {"absent", "partial"} :
                LET h == get_mp3_except(written, CalledProcessError("lame"))
                IN  /\ mp3' = h.mp3
                    /\ error' = h.exc
          /\ events' = events \o <<Event("ffmpeg", TRUE, <<>>), Event("lame", FALSE, <<>>),
                                   Event("get_mp3", FALSE, "derived")>>
          /\ pc' = "done"
    /\ UNCHANGED <<blocks, data, chapters, plan_created, plan_exists, plan_buf,
                   plan_file, stdout, tagged, nm_i, nm_title, nm_name>>

\* delete = True; fp = tempfile.NamedTemporaryFile('w+', delete=False)
MkTemp ==
    /\ pc = "mktemp"
    /\ plan_created' = TRUE
    /\ plan_exists' = TRUE
    /\ plan_buf' = <<>>
    /\ plan_file' = <<>>
    /\ pc' = "write_chapters"
    /\ UNCHANGED <<blocks, data, chapters, error, mp3, stdout, events, tagged,
                   nm_i, nm_title, nm_name>>

\* main_delete with the finally clause removing the file whatever happened
main_delete_always(raised) == TRUE

\* the value of "delete" in the finally clause: True unless the except clause ran
main_delete(raised) == ~raised

\* the except and finally clauses of main's try statement
MainCleanup(raised, exc) ==
    /\ IF raised
       THEN /\ stdout' = Append(stdout, [text |-> "mp3splt failed with labels in %r",
                                         arg |-> PlanPath])
            /\ error' = exc
            /\ pc' = "done"
       ELSE /\ UNCHANGED <<stdout, error>>
            /\ pc' = IF Len(chapters) = 0 THEN "done" ELSE "id3tag"
    /\ plan_exists' = IF main_delete(raised) THEN FALSE ELSE plan_exists

\* write_chapters(fp, chapters): a write or the flush may fail, and then
\* the text stays in the buffer
WriteChapters ==
    /\ pc = "write_chapters"
    /\ \/ /\ LET w == write_chapters(chapters)
             IN  plan_buf' = w.buf /\ plan_file' = w.file
          /\ events' = Append(events, Event("write_chapters", TRUE, <<>>))
          /\ pc' = "mp3splt"
          /\ UNCHANGED <<stdout, error, plan_exists>>
       \/ /\ plan_buf' = plan_text(chapters)
          /\ plan_file' = <<>>
          /\ events' = Append(events, Event("write_chapters", FALSE, <<>>))
          /\ MainCleanup(TRUE, [type |-> "OSError", msg |-> <<"write">>])
    /\ UNCHANGED <<blocks, data, chapters, mp3, plan_created, tagged,
                   nm_i, nm_title, nm_name>>

\* subprocess.check_call(('mp3splt', '-A', fp.name, '-d', output_dir, full_mp3))
\* with the except and finally clauses around it; the event records what the
\* splitter can read of the plan file
Split ==
    /\ pc = "mp3splt"
    /\ \E ok \in BOOLEAN :
        /\ events' = Append(events, Event("mp3splt", ok, [plan |-> plan_file, mp3 |-> mp3]))
        /\ MainCleanup(~ok, CalledProcessError("mp3splt"))
    /\ tagged' = 0
    /\ UNCHANGED <<blocks, data, chapters, mp3, plan_created, plan_buf, plan_file,
                   nm_i, nm_title, nm_name>>

\* the code points str.encode('latin1') rejects
NonLatin1 == {"U+2019", "U+FB01"}

\* one pass of the tagging loop, i = tagged
Tag ==
    /\ pc = "id3tag"
    /\ tagged < Len(chapters)
    /\ LET title == chapters[tagged + 1][1]
           arg == [file |-> get_output_name(tagged, title), song |-> title,
                   track |-> tagged + 1, total |-> Len(chapters)]
       IN  IF \E k \in 1..Len(title) : title[k] \in NonLatin1
           THEN /\ error' = [type |-> "UnicodeEncodeError", msg |-> title]
                /\ pc' = "done"
                /\ UNCHANGED <<events, tagged>>
           ELSE \E ok \in BOOLEAN :
                   /\ events' = Append(events, Event("id3tag", ok, arg))
                   /\ IF ok
                      THEN /\ tagged' = tagged + 1
                           /\ pc' = IF tagged + 1 = Len(chapters) THEN "done" ELSE "id3tag"
                           /\ UNCHANGED error
                      ELSE /\ error' = CalledProcessError("id3tag")
                           /\ pc' = "done"
                           /\ UNCHANGED tagged
    /\ UNCHANGED <<blocks, data, chapters, mp3, plan_created, plan_exists, plan_buf,
                   plan_file, stdout, nm_i, nm_title, nm_name>>

Next == GetChapters \/ GetMp3 \/ MkTemp \/ WriteChapters \/ Split \/ Tag

Spec == Init /\ [][Next]_vars

(***************************************************************************)
(* What the probe text holds, read off the items it was rendered from      *)
(* (not through the patterns): the reference the extraction is compared to.*)
(***************************************************************************)
LineTag(kind, span, title) == [kind |-> kind, span |-> span, title |-> title]

TagsOf(b) ==
    CASE b.kind = "block" -> <<LineTag("chapter", b.span, <<>>), LineTag("other", NoSpan, <<>>),
                               LineTag("title", NoSpan, b.title)>>
      [] b.kind = "chapter" -> <<LineTag("chapter", b.span, <<>>)>>
      [] b.kind = "title" -> <<LineTag("title", NoSpan, b.title)>>
      [] b.kind = "other" -> <<LineTag("other", NoSpan, <<>>)>>

TaggedLines(bs) == Concat([k \in 1..Len(bs) |-> TagsOf(bs[k])])

\* the positions of the chapter lines that have a title line two lines later
AlignedPos(bs) ==
    LET tl == TaggedLines(bs)
    IN  {p \in 1..Len(tl) : /\ tl[p].kind = "chapter"
                            /\ p + 2 <= Len(tl)
                            /\ tl[p + 2].kind = "title"}

\* the chapter lines without a title line two lines later, and the title
\* lines without a chapter line two lines earlier
UnmatchedPos(bs) ==
    LET tl == TaggedLines(bs)
    IN  {p \in 1..Len(tl) :
            \/ tl[p].kind = "chapter" /\ p \notin AlignedPos(bs)
            \/ tl[p].kind = "title" /\ (p - 2) \notin AlignedPos(bs)}

\* the titles of TitleSet in normalized form, written out
ExpectedTitle(t) ==
    CASE t = <<"I","n","t","r","o">> -> <<"I","n","t","r","o">>
      [] t = <<"A","/","B","U+2019","U+FB01">> -> <<"A","/","B","'","f","i">>
      [] t = <<"a","\t","b">> -> <<"a","\t","b">>

\* one record per aligned block, in ascending position
ExpectedRecords(bs) ==
    LET tl == TaggedLines(bs)
        ps == sorted(AlignedPos(bs))
    IN  [n \in 1..Len(ps) |-> <<ExpectedTitle(tl[ps[n] + 2].title),
                                tl[ps[n]].span.start, tl[ps[n]].span.end>>]

\* the probe text with every unmatched line replaced by a line that matches
\* neither pattern
BlankedText(bs) ==
    LET tl == TaggedLines(bs)
        text(p) == IF p \in UnmatchedPos(bs) \/ tl[p].kind = "other" THEN MetadataLine
                   ELSE IF tl[p].kind = "chapter" THEN ChapterLine(tl[p].span)
                   ELSE TitleLine(tl[p].title)
    IN  Concat([p \in 1..Len(tl) |-> text(p) \o <<"\n">>])

EndsWith(s, suffix) ==
    /\ Len(suffix) <= Len(s)
    /\ SubSeq(s, Len(s) - Len(suffix) + 1, Len(s)) = suffix

Extracted == pc # "get_chapters"

\* a text of whole chapter blocks and other lines, the blocks contiguous
WellFormed(bs) ==
    LET bl == SelectSeq(bs, LAMBDA b : b.kind = "block")
    IN  /\ \A k \in 1..Len(bs) : bs[k].kind \in {"block", "other"}
        /\ \A k \in 1..(Len(bl) - 1) : bl[k].span.end = bl[k + 1].span.start

\* str.split(sep) for a one-character sep
SplitOn(s, sep) ==
    LET at == sorted({p \in 1..Len(s) : s[p] = sep})
        n == Len(at)
        from(k) == IF k = 1 THEN 1 ELSE at[k - 1] + 1
        to(k) == IF k = n + 1 THEN Len(s) ELSE at[k] - 1
    IN  [k \in 1..(n + 1) |-> SubSeq(s, from(k), to(k))]

\* the lines of a text in which every line ends with a newline
PlanLines(text) ==
    LET parts == SplitOn(text, "\n")
    IN  IF parts[Len(parts)] = <<>> THEN SubSeq(parts, 1, Len(parts) - 1) ELSE parts

ParsePlan(text) ==
    LET ls == PlanLines(text)
    IN  [k \in 1..Len(ls) |-> SplitOn(ls[k], "\t")]

\* the digit a character stands for
DigitValue(ch) == CHOOSE n \in 0..9 : DigitOf(n) = ch

RECURSIVE DigitsValue(_)
DigitsValue(ds) ==
    IF ds = <<>> THEN 0
    ELSE 10 * DigitsValue(SubSeq(ds, 1, Len(ds) - 1)) + DigitValue(ds[Len(ds)])

\* the value of a time text with at most two decimals, in hundredths
TimeValue(t) ==
    LET w == RunLen(t, 1, Digits)
        frac == SubSeq(t, w + 2, Len(t))
    IN  100 * DigitsValue(SubSeq(t, 1, w))
        + (IF Len(frac) = 1 THEN 10 * DigitsValue(frac) ELSE DigitsValue(frac))


(***************************************************************************)
(* C4.  Whenever two adjacent records of the extracted sequence have an    *)
(* end and a next start that differ as text, get_chapters raises, and the  *)
(* message names the end and the start of the first such pair; so every    *)
(* sequence it returns has record[i].end = record[i+1].start as text.      *)
(***************************************************************************)
C4_ContiguityEnforced ==
    Extracted =>
        LET recs == ExpectedRecords(blocks)
            bad == {n \in 1..(Len(recs) - 1) : recs[n][3] # recs[n + 1][2]}
        IN  /\ bad # {} =>
                LET n == CHOOSE x \in bad : \A y \in bad : x <= y
                IN  /\ error.type = "Exception"
                    /\ EndsWith(error.msg, recs[n][3] \o <<" ","!","="," ">> \o recs[n + 1][2])
                    /\ chapters = <<>>
            /\ error = NoError =>
                \A n \in 1..(Len(chapters) - 1) : chapters[n][3] = chapters[n + 1][2]

\* three records, both pairs mismatched, with different values
C4_Witness ==
    LET recs == ExpectedRecords(blocks)
    IN  /\ pc = "done"
        /\ error.type = "Exception"
        /\ Len(recs) = 3
        /\ recs[1][3] # recs[2][2]
        /\ recs[2][3] # recs[3][2]
        /\ recs[1][3] # recs[2][3]

\* two records whose boundary is equal as a number and differs as text
C4_TextualWitness ==
    LET recs == ExpectedRecords(blocks)
    IN  /\ pc = "done"
        /\ error.type = "Exception"
        /\ Len(recs) = 2
        /\ recs[1][3] = T_10_0
        /\ recs[2][2] = T_10_00

(***************************************************************************)
(* C5.  A probe text made of N whole chapter blocks (and lines that match  *)
(* neither pattern), the blocks contiguous, yields exactly N records, one  *)
(* per block in the order of the text, whatever the chapter numbers are;   *)
(* each record holds the normalized title, the start and the end of its    *)
(* block.                                                                  *)
(***************************************************************************)
C5_AlignedBlocksExtracted ==
    (Extracted /\ WellFormed(blocks)) =>
        LET bl == SelectSeq(blocks, LAMBDA b : b.kind = "block")
        IN  /\ error = NoError
            /\ Len(chapters) = Len(bl)
            /\ \A k \in 1..Len(bl) :
                  chapters[k] = <<ExpectedTitle(bl[k].title), bl[k].span.start,
                                  bl[k].span.end>>

\* three blocks whose chapter numbers descend, one title changed by normalize
C5_Witness ==
    /\ pc = "done"
    /\ WellFormed(blocks)
    /\ Len(blocks) = 3
    /\ Len(chapters) = 3
    /\ blocks[1].span.num = <<"2">>
    /\ blocks[2].span.num = <<"1">>
    /\ blocks[3].span.num = <<"0">>
    /\ \E k \in 1..3 : chapters[k][1] # blocks[k].title

(***************************************************************************)
(* C6.  A chapter line without a title line two lines later, and a title   *)
(* line without a chapter line two lines earlier, leave no record; the     *)
(* outcome is the one of the same text with those lines matching nothing:  *)
(* an error is raised only if the aligned blocks themselves are not        *)
(* contiguous.                                                             *)
(***************************************************************************)
C6_UnmatchedDropped ==
    (Extracted /\ UnmatchedPos(blocks) # {}) =>
        LET r == get_chapters(BlankedText(blocks))
            recs == ExpectedRecords(blocks)
        IN  /\ chapters = r.value
            /\ error = r.exc
            /\ error = NoError => chapters = recs
            /\ error # NoError => \E n \in 1..(Len(recs) - 1) : recs[n][3] # recs[n + 1][2]

\* an unmatched chapter line and an unmatched title line beside a block
C6_Witness ==
    LET tl == TaggedLines(blocks)
    IN  /\ pc = "done"
        /\ error = NoError
        /\ Len(chapters) = 1
        /\ \E p \in UnmatchedPos(blocks) : tl[p].kind = "chapter"
        /\ \E p \in UnmatchedPos(blocks) : tl[p].kind = "title"

(***************************************************************************)
(* C7.  The plan text, split into lines at newlines and each line into     *)
(* fields at tabs, gives one (start, end, name) triple per chapter, in     *)
(* order, equal to (start, end, get_output_name(index, title)).            *)
(***************************************************************************)
C7_PlanRoundTrip ==
    (pc = "done" /\ error = NoError) =>
        ParsePlan(plan_file) =
            [n \in 1..Len(chapters) |->
                <<chapters[n][2], chapters[n][3], get_output_name(n - 1, chapters[n][1])>>]

(***************************************************************************)
(* C8.  get_output_name(i, t1) and get_output_name(j, t2) differ whenever  *)
(* i and j differ, whatever the titles.                                    *)
(***************************************************************************)
C8_NamesInjectiveOverIndex ==
    pc = "done" =>
        \A j \in 0..MaxIndex : \A t \in NameTitleSet :
            j # nm_i => get_output_name(j, t) # nm_name

\* a name whose title begins with a digit, next to a three-digit index
C8_Witness ==
    /\ pc = "done"
    /\ nm_i = 9
    /\ nm_title = <<"0">>
    /\ nm_name = <<"1","0","."," ","0">>
    /\ MaxIndex >= 99

(***************************************************************************)
(* C9.  Every record get_chapters returns has start < end as numbers, so   *)
(* no record with start >= end reaches the split plan.                     *)
(***************************************************************************)
C9_StartBeforeEnd ==
    (pc = "done" /\ error = NoError) =>
        /\ \A n \in 1..Len(chapters) :
              TimeValue(chapters[n][2]) < TimeValue(chapters[n][3])
        /\ \A k \in 1..Len(ParsePlan(plan_file)) :
              TimeValue(ParsePlan(plan_file)[k][1]) < TimeValue(ParsePlan(plan_file)[k][2])

(***************************************************************************)
(* Claims about a run of main.                                             *)
(***************************************************************************)
Happened(what, ok) ==
    \E k \in 1..Len(events) : events[k].what = what /\ events[k].ok = ok

Reported ==
    \E k \in 1..Len(stdout) :
        /\ stdout[k].text = "mp3splt failed with labels in %r"
        /\ stdout[k].arg = PlanPath

\* the phase of a run a call belongs to
PhaseOf(what) ==
    CASE what = "ffprobe" -> 1
      [] what \in {"ffmpeg", "lame", "get_mp3"} -> 2
      [] what = "write_chapters" -> 3
      [] what = "mp3splt" -> 4
      [] what = "id3tag" -> 5

Before(k, what, ok) ==
    \E j \in 1..(k - 1) : events[j].what = what /\ events[j].ok = ok

(***************************************************************************)
(* C1.  Once the plan file is created it is deleted exactly when mp3splt   *)
(* returned successfully: after a failure of mp3splt or of writing the     *)
(* plan the run has ended, the file exists, its path was printed and the   *)
(* failure is the run's error; no id3tag call sees the file.               *)
(***************************************************************************)
C1_PlanDeletedIffSplit ==
    plan_created =>
        /\ ~plan_exists <=> Happened("mp3splt", TRUE)
        /\ Happened("mp3splt", FALSE) =>
              /\ pc = "done" /\ plan_exists /\ Reported
              /\ error = CalledProcessError("mp3splt")
        /\ Happened("write_chapters", FALSE) =>
              /\ pc = "done" /\ plan_exists /\ Reported
              /\ error.type = "OSError"
              /\ ~Happened("mp3splt", TRUE) /\ ~Happened("mp3splt", FALSE)
        /\ \A k \in 1..Len(events) : events[k].what = "id3tag" => ~plan_exists

C1_Witness ==
    /\ pc = "done"
    /\ plan_created
    /\ plan_exists
    /\ Happened("mp3splt", FALSE)
    /\ Reported

C1_DeletedWitness ==
    /\ plan_created
    /\ ~plan_exists
    /\ Happened("id3tag", TRUE)

(***************************************************************************)
(* C2.  The calls of a run are in the order extraction, derivation, plan   *)
(* writing, splitting, tagging: mp3splt is called only after get_mp3       *)
(* returned and write_chapters returned, and it can read the whole plan;   *)
(* id3tag is called only after mp3splt returned successfully.              *)
(***************************************************************************)
C2_PhasesInOrder ==
    /\ \A j, k \in 1..Len(events) :
          j < k => /\ PhaseOf(events[j].what) <= PhaseOf(events[k].what)
                   /\ events[k].what # "id3tag" =>
                         (events[j].what = events[k].what => j = k)
    /\ \A k \in 1..Len(events) :
          events[k].what = "mp3splt" =>
              /\ Before(k, "ffprobe", TRUE)
              /\ Before(k, "get_mp3", TRUE)
              /\ Before(k, "write_chapters", TRUE)
              /\ events[k].arg.mp3 # "absent"
              /\ Len(PlanLines(events[k].arg.plan)) = Len(chapters)
              /\ events[k].arg.plan = plan_text(chapters)
    /\ \A k \in 1..Len(events) :
          events[k].what = "id3tag" => Before(k, "mp3splt", TRUE)

\* a whole run: derived, split, two files tagged
C2_Witness ==
    /\ pc = "done"
    /\ error = NoError
    /\ Happened("lame", TRUE)
    /\ Len(chapters) = 2
    /\ tagged = 2

(***************************************************************************)
(* C3.  When no chapter line of the probe text has a title line two lines  *)
(* later, get_chapters returns the empty sequence, and main ends with an   *)
(* error before the plan file is created and before ffmpeg, mp3splt or     *)
(* id3tag is called.                                                       *)
(***************************************************************************)
C3_NoChaptersIsFatal ==
    (Extracted /\ Happened("ffprobe", TRUE) /\ AlignedPos(blocks) = {}) =>
        /\ chapters = <<>>
        /\ pc = "done"
        /\ error.type = "Exception"
        /\ error.msg = NothingLit
        /\ ~plan_created
        /\ \A k \in 1..Len(events) : events[k].what = "ffprobe"

\* a chapter line and a title line, not aligned
C3_Witness ==
    LET tl == TaggedLines(blocks)
    IN  /\ pc = "done"
        /\ Happened("ffprobe", TRUE)
        /\ AlignedPos(blocks) = {}
        /\ \E p \in 1..Len(tl) : tl[p].kind = "chapter"
        /\ \E p \in 1..Len(tl) : tl[p].kind = "title"
        /\ error.msg = NothingLit

(***************************************************************************)
(* C10.  When get_mp3 starts a derivation and the derivation fails, the    *)
(* file at the cache path does not exist when get_mp3 exits, and the error *)
(* that leaves get_mp3 is the derivation's.                                *)
(***************************************************************************)
C10_FailedDerivationLeavesNoFile ==
    Happened("get_mp3", FALSE) =>
        /\ mp3 = "absent"
        /\ error = CalledProcessError("lame")

====
